---- MODULE Spec2Model ----
(***************************************************************************)
(* Inductive conformal predictors (nonconformist/icp.py) and aggregated    *)
(* conformal predictors (nonconformist/acp.py).                            *)
(*                                                                         *)
(* Conventions.  A Python value that may be None, or an attribute that may *)
(* not exist yet, is a set: {} for None / missing, {v} for the value v.    *)
(* A float is an exact rational <<num, den>> with den > 0; a numpy bool is *)
(* <<1, 1>> or <<0, 1>>.  An array is [dtype, shape, data] with data a     *)
(* nested sequence; a raised exception is a result with exc # "none".      *)
(***************************************************************************)
EXTENDS Integers, Sequences, FiniteSets, TLC

VARIABLES
    icp,        \* the stand-alone ICP object (SpecIcp, SpecCal)
    ret,        \* what the last operation on icp was given and returned
    calibrated, \* history: some calibrate call on icp has returned normally
    log,        \* history: the calibrate calls made on icp, in order
    acp,        \* the AggregatedCp object
    dataset,    \* the (x, y) its caller fits it on
    fitting,    \* the locals of AggregatedCp.fit, and how the last fit ended
    aret,       \* the pending result of the call on acp
    old         \* history: old[m] iff member m existed when the last fit began

icpVars == <<icp, ret, calibrated, log>>
acpVars == <<acp, dataset, fitting, aret, old>>
vars == <<icp, ret, calibrated, log, acp, dataset, fitting, aret, old>>

(***************************************************************************)
(* Bounds of the model and the sampled input values.                       *)
(***************************************************************************)
MaxCal == 2      \* rows a calibration set may hold in SpecIcp
MaxCalls == 2    \* calibrate calls recorded in SpecCal
MaxBatch == 1    \* rows of one calibrate call
MaxN == 2        \* rows of the dataset an AggregatedCp is fitted on
MaxModels == 2   \* n_models

Feats == 0 .. 1                               \* feature values of a row
Labels == 0 .. 1                              \* class labels
Params == 0 .. 1                              \* what training may leave in a scorer
UniformDraws == {<<0, 1>>, <<1, 2>>, <<1, 1>>}  \* sampled values of U(0,1)
Significances == {{}, {<<0, 1>>}, {<<1, 2>>}, {<<1, 1>>}} \* None, 0, 0.5, 1

(***************************************************************************)
(* Python / numpy helpers.                                                 *)
(***************************************************************************)
None == {}
Some(v) == {v}
Get(o) == CHOOSE v \in o : TRUE

Range(s) == {s[i] : i \in DOMAIN s}

SeqsUpTo(S, n) == UNION {[1 .. k -> S] : k \in 0 .. n}

RECURSIVE SortSet(_)
SortSet(S) ==
    IF S = {} THEN <<>>
    ELSE LET m == CHOOSE a \in S : \A b \in S : a <= b
         IN <<m>> \o SortSet(S \ {m})

\* the queries: predict treats each row of x on its own, so one row and none
Queries == SeqsUpTo(Feats, 1)

\* np.unique: the sorted distinct values
unique(y) == SortSet(Range(y))

\* a Python truth test of `significance`: None and 0.0 are both false
Truthy(significance) == significance # None /\ Get(significance)[1] # 0

\* rational comparisons
Gt(p, q) == p[1] * q[2] > q[1] * p[2]
Ge(p, q) == p[1] * q[2] >= q[1] * p[2]
Bool(b) == IF b THEN <<1, 1>> ELSE <<0, 1>>

Raise(e) == [exc |-> e, dtype |-> "none", shape |-> <<>>, data |-> <<>>]
Array(dtype, shape, data) ==
    [exc |-> "none", dtype |-> dtype, shape |-> shape, data |-> data]

(***************************************************************************)
(* Class attributes.  A name with two leading underscores written inside   *)
(* a class body is mangled with the name of the class whose body it is     *)
(* written in, at the assignment and at the read alike.                    *)
(***************************************************************************)
Mangle(cls, name) == "_" \o cls \o name

\* the attributes each class body assigns
ClassDict(cls) ==
    CASE cls = "BaseIcp" -> (Mangle("BaseIcp", "__problem_type") :> "None")
      [] cls = "IcpClassifier" ->
            (Mangle("IcpClassifier", "__problem_type") :> "classification")
      [] cls = "IcpRegressor" ->
            (Mangle("IcpRegressor", "__problem_type") :> "regression")

Mro(cls) == IF cls = "BaseIcp" THEN <<"BaseIcp">> ELSE <<cls, "BaseIcp">>

\* attribute lookup on a class: the first class of the MRO that has it
GetAttr(cls, attr) ==
    LET hits == {i \in DOMAIN Mro(cls) : attr \in DOMAIN ClassDict(Mro(cls)[i])}
        first == CHOOSE i \in hits : \A j \in hits : i <= j
    IN ClassDict(Mro(cls)[first])[attr]

\* BaseIcp.get_problem_type: `cls.__problem_type`, written in BaseIcp's body
get_problem_type(cls) == GetAttr(cls, Mangle("BaseIcp", "__problem_type"))

(***************************************************************************)
(* The nonconformity function (an external collaborator): fit leaves a     *)
(* parameter in it, calc_nc gives one score per row, 0 when the trained    *)
(* model predicts the row's label and 1 when it does not.                  *)
(***************************************************************************)
NcNew(id) == [id |-> id, param |-> 0]

NcFit(nc, param) == [nc EXCEPT !.param = param]

Score(param, x, y) == IF (x + param) % 2 = y % 2 THEN 0 ELSE 1

calc_nc(nc, x, y) == [i \in DOMAIN x |-> Score(nc.param, x[i], y[i])]

\* regression: the interval x -+ w, w the calibration score at the quantile
\* the significance asks for (the largest score when it is None or 0)
RECURSIVE SortDesc(_)
SortDesc(s) ==
    IF s = <<>> THEN <<>>
    ELSE LET i == CHOOSE a \in DOMAIN s : \A b \in DOMAIN s : s[a] >= s[b]
         IN <<s[i]>> \o SortDesc([j \in 1 .. Len(s) - 1 |->
                                    IF j < i THEN s[j] ELSE s[j + 1]])

NcPredict(nc, x, cal_scores, significance) ==
    LET n == Len(cal_scores)
        s == IF significance = None THEN <<0, 1>> ELSE Get(significance)
        border == (s[1] * (n + 1)) \div s[2]
        at == IF border < 1 THEN 1 ELSE IF border > n THEN n ELSE border
        w == IF n = 0 THEN 0 ELSE SortDesc(cal_scores)[at]
    IN Array("float", <<Len(x), 2>>,
             [j \in DOMAIN x |-> <<<<x[j] - w, 1>>, <<x[j] + w, 1>>>>])

(***************************************************************************)
(* BaseIcp, IcpClassifier, IcpRegressor.                                   *)
(***************************************************************************)
\* BaseIcp.__init__ and the subclasses' __init__
BaseIcpInit(cls, nc_function) ==
    [cls |-> cls, nc_function |-> nc_function,
     cal_x |-> None, cal_y |-> None,
     classes |-> None, smoothing |-> TRUE,
     cal_scores |-> {}]

IcpClassifierInit(nc_function, smoothing) ==
    [BaseIcpInit("IcpClassifier", nc_function) EXCEPT !.smoothing = smoothing]

IcpRegressorInit(nc_function) == BaseIcpInit("IcpRegressor", nc_function)

\* the constructor call cp_class(nc_function): smoothing takes its default
NewIcp(cls, nc_function) ==
    IF cls = "IcpClassifier" THEN IcpClassifierInit(nc_function, TRUE)
    ELSE IcpRegressorInit(nc_function)

\* BaseIcp.fit
fit(self, param) == [self EXCEPT !.nc_function = NcFit(self.nc_function, param)]

\* IcpClassifier._update_classes
_update_classes(self, y, increment) ==
    IF self.classes = None \/ ~increment
    THEN [self EXCEPT !.classes = Some(unique(y))]
    ELSE [self EXCEPT !.classes = Some(unique(Get(self.classes) \o y))]

\* _calibrate_hook: BaseIcp's does nothing, IcpClassifier's updates the classes
_calibrate_hook(self, x, y, increment) ==
    IF self.cls = "IcpClassifier" THEN _update_classes(self, y, increment)
    ELSE self

\* _update_calibration_set that takes every call for a non-incremental one
UpdateIgnoringIncrement(self, x, y, increment) ==
    [self EXCEPT !.cal_x = Some(x), !.cal_y = Some(y)]

\* BaseIcp._update_calibration_set
_update_calibration_set(self, x, y, increment) ==
    IF increment /\ self.cal_x # None /\ self.cal_y # None
    THEN [self EXCEPT !.cal_x = Some(Get(self.cal_x) \o x),
                      !.cal_y = Some(Get(self.cal_y) \o y)]
    ELSE [self EXCEPT !.cal_x = Some(x), !.cal_y = Some(y)]

\* BaseIcp.calibrate; ncRaises: the scorer's calc_nc raises
calibrate(self, x, y, increment, ncRaises) ==
    LET hooked == _calibrate_hook(self, x, y, increment)
        updated == _update_calibration_set(hooked, x, y, increment)
    IN IF ncRaises THEN updated
       ELSE [updated EXCEPT !.cal_scores =
                Some(calc_nc(updated.nc_function, Get(updated.cal_x),
                             Get(updated.cal_y)))]

\* PValue with the test score counted among the calibration scores
PValueCountsTestScore(cal_scores, nc, smooth) ==
    LET n_cal == Len(cal_scores)
        n_ge == Cardinality({k \in DOMAIN cal_scores : cal_scores[k] >= nc}) + 1
    IN <<n_ge * smooth[2] + smooth[1], (n_cal + 1) * smooth[2]>>

\* one p-value of IcpClassifier.predict: smooth is the smoothing term's
\* numerator over its denominator, U(0,1) or 1
PValue(cal_scores, nc, smooth) ==
    LET n_cal == Len(cal_scores)
        n_ge == Cardinality({k \in DOMAIN cal_scores : cal_scores[k] >= nc})
    IN <<n_ge * smooth[2] + smooth[1], (n_cal + 1) * smooth[2]>>

\* the return statement of IcpClassifier.predict
IcpThreshold(p, significance) ==
    IF Truthy(significance)
    THEN Array("bool", p.shape,
               [j \in DOMAIN p.data |->
                  [i \in DOMAIN p.data[j] |->
                     Bool(Gt(p.data[j][i], Get(significance)))]])
    ELSE p

\* the p-value matrix of IcpClassifier.predict; u[j][i] is the uniform draw
\* for query j and class column i
IcpPValues(self, x, u) ==
    LET classes == Get(self.classes)
        cal_scores == Get(self.cal_scores)
    IN Array("float", <<Len(x), Len(classes)>>,
             [j \in DOMAIN x |->
                [i \in DOMAIN classes |->
                   PValue(cal_scores,
                          Score(self.nc_function.param, x[j], classes[i]),
                          IF self.smoothing THEN u[j][i] ELSE <<1, 1>>)]])

\* IcpClassifier.predict
\* IcpClassifier.predict: `self.classes.size` fails on None, and
\* `self.cal_scores.size`, read in the loop over the classes, fails when
\* no calibrate has set the attribute
IcpClassifierPredict(self, x, significance, u) ==
    IF self.classes = None THEN Raise("AttributeError")
    ELSE IF Get(self.classes) # <<>> /\ self.cal_scores = {}
    THEN Raise("AttributeError")
    ELSE IcpThreshold(IcpPValues(self, x, u), significance)

\* IcpRegressor.predict
IcpRegressorPredict(self, x, significance) ==
    IF self.cal_scores = {} THEN Raise("AttributeError")
    ELSE NcPredict(self.nc_function, x, Get(self.cal_scores), significance)

\* p.predict(x, significance) on a member of either class
predict(self, x, significance, u) ==
    IF self.cls = "IcpClassifier"
    THEN IcpClassifierPredict(self, x, significance, u)
    ELSE IcpRegressorPredict(self, x, significance)

(***************************************************************************)
(* The stand-alone ICP: construction and its three operations.             *)
(***************************************************************************)
NoCall == [op |-> "idle", x |-> <<>>, significance |-> None, u |-> <<>>,
           res |-> Raise("none")]

Ret(op, x, significance, u, res) ==
    [op |-> op, x |-> x, significance |-> significance, u |-> u, res |-> res]

\* the uniform draws one predict call makes: one per query and class column
Draws(self, x) ==
    LET k == IF self.cls = "IcpClassifier" /\ self.classes # None
                  /\ self.smoothing
             THEN Len(Get(self.classes)) ELSE 0
    IN [DOMAIN x -> [1 .. k -> UniformDraws]]

\* had (history): how many members the ensemble held when the call began
NoFit == [status |-> "none", x |-> <<>>, y |-> <<>>, i |-> 0, cals |-> <<>>,
          had |-> 0]

NoACall == [op |-> "idle", x |-> <<>>, significance |-> None, u |-> <<>>,
            args |-> <<>>, res |-> Raise("none")]

\* no AggregatedCp is in play
AcpUnused ==
    /\ acp = [cp_class |-> "IcpClassifier", n_models |-> 0,
              p_agg_func |-> "mean", predictors |-> <<>>]
    /\ dataset = [x |-> <<>>, y |-> <<>>]
    /\ fitting = NoFit
    /\ aret = NoACall
    /\ old = <<>>

\* the object as constructed; no call is in progress
IcpInit ==
    /\ icp \in {IcpClassifierInit(NcNew(0), s) : s \in BOOLEAN}
                 \cup {IcpRegressorInit(NcNew(0))}
    /\ ret = NoCall
    /\ calibrated = FALSE
    /\ log = <<>>
    /\ AcpUnused

\* icp.fit(x, y): what the training leaves in the scorer is param
IcpFit ==
    /\ ret = NoCall
    /\ \E param \in Params :
        /\ icp' = fit(icp, param)
        /\ ret' = Ret("fit", <<>>, None, <<>>, Raise("none"))
        /\ UNCHANGED <<calibrated, log>>
        /\ UNCHANGED acpVars

\* icp.calibrate(x, y, increment), returning or raising out of calc_nc
Calibrate(x, y, increment, ncRaises) ==
    /\ ret = NoCall
    /\ icp' = calibrate(icp, x, y, increment, ncRaises)
    /\ ret' = Ret("calibrate", <<>>, None, <<>>,
                  Raise(IF ncRaises THEN "NcError" ELSE "none"))
    /\ calibrated' = (calibrated \/ ~ncRaises)
    /\ UNCHANGED acpVars

\* calibrate calls that keep the calibration set within MaxCal rows
IcpCalibrate ==
    \E x \in SeqsUpTo(Feats, MaxBatch), increment \in BOOLEAN, ncRaises \in BOOLEAN :
        \E y \in [DOMAIN x -> Labels] :
            /\ Len(Get(_update_calibration_set(icp, x, y, increment).cal_x)) <= MaxCal
            /\ Calibrate(x, y, increment, ncRaises)
            /\ UNCHANGED log

\* icp.predict(x, significance)
IcpPredict ==
    /\ ret = NoCall
    /\ \E x \in Queries, significance \in Significances :
        \E u \in Draws(icp, x) :
            /\ ret' = Ret("predict", x, significance, u,
                          predict(icp, x, significance, u))
            /\ UNCHANGED <<icp, calibrated, log>>
            /\ UNCHANGED acpVars

\* the caller takes the result (or the exception) of the call
IcpReturn ==
    /\ ret # NoCall
    /\ ret' = NoCall
    /\ UNCHANGED <<icp, calibrated, log>>
    /\ UNCHANGED acpVars

IcpNext == IcpFit \/ IcpCalibrate \/ IcpPredict \/ IcpReturn

SpecIcp == IcpInit /\ [][IcpNext]_vars

(***************************************************************************)
(* The calibration history of one ICP: the same fit and calibrate, with    *)
(* every calibrate call recorded.                                          *)
(***************************************************************************)
LogEntry(x, y, increment) == [x |-> x, y |-> y, increment |-> increment]

CalCalibrate ==
    /\ Len(log) < MaxCalls
    /\ \E x \in SeqsUpTo(Feats, MaxBatch), increment \in BOOLEAN,
          ncRaises \in BOOLEAN :
        \E y \in [DOMAIN x -> Labels] :
            /\ Calibrate(x, y, increment, ncRaises)
            /\ log' = Append(log, LogEntry(x, y, increment))

\* the scorer handed to the constructor may have been trained already
CalInit ==
    /\ \E param \in Params :
          icp \in {IcpClassifierInit(NcFit(NcNew(0), param), TRUE),
                   IcpRegressorInit(NcFit(NcNew(0), param))}
    /\ ret = NoCall
    /\ calibrated = FALSE
    /\ log = <<>>
    /\ AcpUnused

CalNext == CalCalibrate \/ IcpReturn

SpecCal == CalInit /\ [][CalNext]_vars

(***************************************************************************)
(* BootstrapSampler and AggregatedCp.                                      *)
(***************************************************************************)
\* a[idx]: numpy indexing with an index array (1-based here)
Take(a, idx) == [k \in DOMAIN idx |-> a[idx[k]]]

\* np.random.permutation(n): the permutations it may return
permutation(n) ==
    {f \in [1 .. n -> 1 .. n] : \A a, b \in 1 .. n : f[a] = f[b] => a = b}

\* BootstrapSampler.gen_samples, one draw: train is the n indices drawn with
\* replacement, cal the indices train never hit, in ascending order
BootstrapCal(n, train) == SortSet((1 .. n) \ Range(train))

\* a new object: an identity no object in `used` has
FreshId(used) == CHOOSE i \in 1 .. Cardinality(used) + 1 :
                    i \notin used /\ \A j \in 1 .. i - 1 : j \in used

NcIds(predictors) == {predictors[m].nc_function.id : m \in DOMAIN predictors}

\* AggregatedCp.__init__ with the default sampler
AcpNew(cp_class, aggregation_func, n_models) ==
    [cp_class |-> cp_class, n_models |-> n_models,
     p_agg_func |-> aggregation_func, predictors |-> <<>>]

\* a fit that keeps the members it finds
FitKeepsMembers(predictors) == predictors

\* the first statement of AggregatedCp.fit: self.predictors = []
FitReset(predictors) == <<>>

\* the body of the loop of AggregatedCp.fit up to the append: a new scorer in
\* a new predictor, fitted on the train slice, calibrated on the cal slice
FitMember(ncid, cp_class, x, y, cal, param) ==
    LET predictor == NewIcp(cp_class, NcNew(ncid))
    IN calibrate(fit(predictor, param), Take(x, cal), Take(y, cal), FALSE,
                 FALSE)

\* is_regression of AggregatedCp.predict
is_regression(cp_class) == get_problem_type(cp_class) = "regression"

\* the significance AggregatedCp.predict hands to every member
MemberSignificance(cp_class, significance) ==
    IF is_regression(cp_class) THEN significance ELSE None

\* np.dstack of the members' 2-d outputs: (rows, columns, members)
dstack(rs) ==
    IF rs = <<>> THEN Raise("ValueError")
    ELSE IF \E m \in DOMAIN rs : rs[m].shape # rs[1].shape
    THEN Raise("ValueError")
    ELSE Array(rs[1].dtype, rs[1].shape \o <<Len(rs)>>,
               [j \in DOMAIN rs[1].data |->
                  [i \in DOMAIN rs[1].data[j] |->
                     [m \in DOMAIN rs |-> rs[m].data[j][i]]]])

RECURSIVE SumRat(_)
SumRat(ps) ==
    IF ps = <<>> THEN <<0, 1>>
    ELSE LET h == Head(ps)
             t == SumRat(Tail(ps))
         IN <<h[1] * t[2] + t[1] * h[2], h[2] * t[2]>>

\* np.mean over the member axis
Mean(ps) == <<SumRat(ps)[1], SumRat(ps)[2] * Len(ps)>>

\* self.p_agg_func: the default mean over axis 2, or the caller's identity
Aggregate(p_agg_func, stacked) ==
    IF p_agg_func = "mean"
    THEN Array("float", SubSeq(stacked.shape, 1, 2),
               [j \in DOMAIN stacked.data |->
                  [i \in DOMAIN stacked.data[j] |-> Mean(stacked.data[j][i])]])
    ELSE stacked

\* predictions >= significance, elementwise on a 2-d or a 3-d array
GeArray(a, q) ==
    Array("bool", a.shape,
          [j \in DOMAIN a.data |->
             [i \in DOMAIN a.data[j] |->
                IF Len(a.shape) = 2 THEN Bool(Ge(a.data[j][i], q))
                ELSE [m \in DOMAIN a.data[j][i] |->
                        Bool(Ge(a.data[j][i][m], q))]]])

\* the ensemble's threshold with the single predictor's strict comparison
AcpThresholdStrict(cp_class, predictions, significance) ==
    IF Truthy(significance) /\ ~is_regression(cp_class)
    THEN Array("bool", predictions.shape,
               [j \in DOMAIN predictions.data |->
                  [i \in DOMAIN predictions.data[j] |->
                     IF Len(predictions.shape) = 2
                     THEN Bool(Gt(predictions.data[j][i], Get(significance)))
                     ELSE [m \in DOMAIN predictions.data[j][i] |->
                             Bool(Gt(predictions.data[j][i][m],
                                     Get(significance)))]]])
    ELSE predictions

\* the return statement of AggregatedCp.predict
AcpThreshold(cp_class, predictions, significance) ==
    IF Truthy(significance) /\ ~is_regression(cp_class)
    THEN GeArray(predictions, Get(significance))
    ELSE predictions

\* what each member returns to the list comprehension of AggregatedCp.predict
MemberResults(self, x, significance, u) ==
    [m \in DOMAIN self.predictors |->
        predict(self.predictors[m], x,
                MemberSignificance(self.cp_class, significance), u[m])]

\* AggregatedCp.predict: a member's exception ends the call
AcpPredictResult(self, x, significance, u) ==
    LET rs == MemberResults(self, x, significance, u)
        raising == {m \in DOMAIN rs : rs[m].exc # "none"}
        stacked == dstack(rs)
    IN IF raising # {}
       THEN rs[CHOOSE m \in raising : \A k \in raising : m <= k]
       ELSE IF stacked.exc # "none" THEN stacked
       ELSE AcpThreshold(self.cp_class, Aggregate(self.p_agg_func, stacked),
                         significance)

\* the uniform draws of one AggregatedCp.predict call, member by member
RECURSIVE DrawsAll(_, _)
DrawsAll(predictors, x) ==
    IF predictors = <<>> THEN {<<>>}
    ELSE {<<h>> \o t : h \in Draws(Head(predictors), x),
                       t \in DrawsAll(Tail(predictors), x)}

ARet(op, x, significance, u, args, res) ==
    [op |-> op, x |-> x, significance |-> significance, u |-> u,
     args |-> args, res |-> res]

\* the dataset: labels of any kind on MaxN rows, the features by position
Datasets ==
    {[x |-> [i \in 1 .. MaxN |-> (i - 1) % 2], y |-> y] :
        y \in [1 .. MaxN -> Labels]}

IcpUnused ==
    /\ icp = IcpRegressorInit(NcNew(0))
    /\ ret = NoCall
    /\ calibrated = FALSE
    /\ log = <<>>

AcpInitWith(cp_classes, aggregation_funcs, model_counts) ==
    /\ \E cp_class \in cp_classes,
          aggregation_func \in aggregation_funcs, n_models \in model_counts :
          acp = AcpNew(cp_class, aggregation_func, n_models)
    /\ dataset \in Datasets
    /\ fitting = NoFit
    /\ aret = NoACall
    /\ old = <<>>
    /\ IcpUnused

\* acp.fit(x, y) up to the loop: the reset, the permutation, the generator
AcpFitStart ==
    /\ aret = NoACall
    /\ fitting.status # "active"
    /\ \E idx \in permutation(Len(dataset.y)) :
        /\ acp' = [acp EXCEPT !.predictors = FitReset(acp.predictors)]
        /\ fitting' = [status |-> "active", x |-> Take(dataset.x, idx),
                       y |-> Take(dataset.y, idx), i |-> 0, cals |-> <<>>,
                       had |-> Len(acp.predictors)]
    /\ old' = [m \in DOMAIN acp'.predictors |-> TRUE]
    /\ UNCHANGED <<dataset, aret>>
    /\ UNCHANGED icpVars

\* one pass of the loop of acp.fit: the sampler's next draw and the member
\* built from it, appended; the last pass ends the call
AcpFitStep ==
    /\ fitting.status = "active"
    /\ fitting.i < acp.n_models
    /\ \E train \in [1 .. Len(fitting.y) -> 1 .. Len(fitting.y)],
          param \in Params :
        LET cal == BootstrapCal(Len(fitting.y), train)
            predictor == FitMember(FreshId(NcIds(acp.predictors)), acp.cp_class,
                                   fitting.x, fitting.y, cal, param)
            last == fitting.i + 1 = acp.n_models
        IN /\ acp' = [acp EXCEPT !.predictors = Append(@, predictor)]
           /\ fitting' = [fitting EXCEPT
                 !.i = @ + 1, !.cals = Append(@, cal),
                 !.status = IF last THEN "done" ELSE "active"]
           /\ aret' = IF last
                      THEN ARet("fit", <<>>, None, <<>>, <<>>, Raise("none"))
                      ELSE aret
    /\ old' = Append(old, FALSE)
    /\ UNCHANGED dataset
    /\ UNCHANGED icpVars

\* a pass of the loop in which the scorer's fit or calc_nc raises: the
\* exception leaves acp.fit, the members appended so far stay
AcpFitRaise ==
    /\ fitting.status = "active"
    /\ fitting.i < acp.n_models
    /\ \E raises \in {"fit", "calc_nc"} :
        /\ fitting' = [fitting EXCEPT !.status = "raised"]
        /\ aret' = ARet("fit", <<>>, None, <<>>, <<>>, Raise("NcError"))
    /\ UNCHANGED <<acp, dataset, old>>
    /\ UNCHANGED icpVars

\* acp.predict(x, significance)
AcpPredict ==
    /\ aret = NoACall
    /\ fitting.status # "active"
    /\ \E x \in Queries, significance \in Significances :
        \E u \in DrawsAll(acp.predictors, x) :
            aret' = ARet("predict", x, significance, u,
                         [m \in DOMAIN acp.predictors |->
                             MemberSignificance(acp.cp_class, significance)],
                         AcpPredictResult(acp, x, significance, u))
    /\ UNCHANGED <<acp, dataset, fitting, old>>
    /\ UNCHANGED icpVars

\* the caller takes the result (or the exception) of the call on acp
AcpReturn ==
    /\ aret # NoACall
    /\ aret' = NoACall
    /\ fitting' = [NoFit EXCEPT !.status = fitting.status]
    /\ UNCHANGED <<acp, dataset, old>>
    /\ UNCHANGED icpVars

AcpInit == AcpInitWith({"IcpClassifier", "IcpRegressor"}, {"mean"},
                       1 .. MaxModels)

AcpNext == AcpFitStart \/ AcpFitStep \/ AcpFitRaise \/ AcpPredict \/ AcpReturn

SpecAcp == AcpInit /\ [][AcpNext]_vars

\* fit calls alone
FitNext == AcpFitStart \/ AcpFitStep \/ AcpFitRaise \/ AcpReturn

SpecFit == AcpInit /\ [][FitNext]_vars

\* an ensemble of one member under the identity aggregation function
OneInit == AcpInitWith({"IcpClassifier"}, {"identity"}, {1})

SpecOne == OneInit /\ [][AcpNext]_vars

(***************************************************************************)
(* Properties of the stand-alone ICP.                                      *)
(***************************************************************************)
\* the p-value matrix the pending predict call computed
PendingP ==
    IF ret.res.dtype = "float" THEN ret.res
    ELSE IcpPValues(icp, ret.x, ret.u)

ClassifierPredicted ==
    /\ ret.op = "predict"
    /\ icp.cls = "IcpClassifier"
    /\ ret.res.exc = "none"

\* C2: on a calibrated IcpClassifier, predict with any significance level
\* (0 included) returns the boolean matrix whose entry is true iff p > level,
\* and the raw p-value matrix only when significance is None.
C2_LevelGivesBooleanMatrix ==
    (ClassifierPredicted /\ calibrated) =>
        LET p == IcpPValues(icp, ret.x, ret.u)
        IN IF ret.significance = None THEN ret.res = p
           ELSE /\ ret.res.dtype = "bool"
                /\ ret.res.shape = p.shape
                /\ \A j \in DOMAIN p.data : \A i \in DOMAIN p.data[j] :
                      ret.res.data[j][i] =
                          Bool(Gt(p.data[j][i], Get(ret.significance)))

\* C3: every p-value IcpClassifier.predict computes lies in [0, 1], and is
\* at least 1/(n_cal+1) when smoothing is disabled.
C3_PValueWellFormed ==
    ClassifierPredicted =>
        \A j \in DOMAIN PendingP.data : \A i \in DOMAIN PendingP.data[j] :
            LET p == PendingP.data[j][i]
                n_cal == Len(Get(icp.cal_scores))
            IN /\ p[2] > 0
               /\ Ge(p, <<0, 1>>)
               /\ Ge(<<1, 1>>, p)
               /\ ~icp.smoothing => Ge(p, <<1, n_cal + 1>>)

\* C3 witness: p-values were computed without smoothing against a non-empty
\* calibration set, one on the upper bound 1 and one on the lower bound
C3_Witness ==
    /\ ClassifierPredicted
    /\ ~icp.smoothing
    /\ icp.cal_scores # {}
    /\ Len(Get(icp.cal_scores)) = MaxCal
    /\ \E j \in DOMAIN PendingP.data : \E i, k \in DOMAIN PendingP.data[j] :
          /\ PendingP.data[j][i] = <<MaxCal + 1, MaxCal + 1>>
          /\ PendingP.data[j][k] = <<1, MaxCal + 1>>

\* C4: predict on an ICP on which no calibrate call has completed is
\* reported as a NotCalibratedError.
C4_ReportsNotCalibrated ==
    (ret.op = "predict" /\ ~calibrated) => ret.res.exc = "NotCalibratedError"

\* the rows of the calibrate calls from the most recent non-incremental one
\* (the first one when all were incremental) on
Since(calls) ==
    LET resets == {i \in DOMAIN calls : ~calls[i].increment}
    IN IF resets = {} THEN 1
       ELSE CHOOSE i \in resets : \A j \in resets : j <= i

RECURSIVE ConcatX(_, _)
ConcatX(calls, from) ==
    IF from > Len(calls) THEN <<>>
    ELSE calls[from].x \o ConcatX(calls, from + 1)

RECURSIVE ConcatY(_, _)
ConcatY(calls, from) ==
    IF from > Len(calls) THEN <<>>
    ELSE calls[from].y \o ConcatY(calls, from + 1)

C1_DispatchOnProblemType ==
    aret.op = "predict" =>
        \A m \in DOMAIN aret.args :
            aret.args[m] = IF acp.cp_class = "IcpRegressor"
                           THEN aret.significance ELSE None

\* C5: no AggregatedCp.predict returns a result computed from an ensemble of
\* fewer than n_models members, such as a fit that raised leaves behind.
C5_NoPartialEnsembleResult ==
    (aret.op = "predict" /\ aret.res.exc = "none" /\ aret.x # <<>>) =>
        Len(acp.predictors) = acp.n_models

\* C8: no ensemble member is calibrated on an empty calibration set: a draw
\* of the bootstrap sampler that leaves no calibration index fails the fit.
C8_NoEmptyCalibrationSet ==
    \A m \in DOMAIN acp.predictors :
        Get(acp.predictors[m].cal_x) # <<>>

\* C9: after every completed AggregatedCp.fit the ensemble holds exactly
\* n_models members, none of which existed when the call began, no two of
\* which share a scorer, each calibrated on the slice of its own draw.
C9_FitRebuildsEnsemble ==
    fitting.status = "done" =>
        /\ Len(acp.predictors) = acp.n_models
        /\ Len(old) = Len(acp.predictors)
        /\ \A m \in DOMAIN acp.predictors : ~old[m]
        /\ \A m, k \in DOMAIN acp.predictors :
              m # k => acp.predictors[m].nc_function.id
                          # acp.predictors[k].nc_function.id
        /\ aret.op = "fit" =>
              \A m \in DOMAIN acp.predictors :
                  /\ acp.predictors[m].cal_x = Some(Take(fitting.x, fitting.cals[m]))
                  /\ acp.predictors[m].cal_y = Some(Take(fitting.y, fitting.cals[m]))

\* C9 witness: a fit that began on a full ensemble has just completed with
\* MaxModels members
C9_Witness ==
    /\ fitting.status = "done"
    /\ aret.op = "fit"
    /\ fitting.had = MaxModels
    /\ Len(acp.predictors) = MaxModels

\* C10: in a classification result every column is one label across the
\* ensemble: the members' label sets agree column by column.
C10_ColumnsAreOneLabel ==
    (aret.op = "predict" /\ aret.res.exc = "none" /\ aret.x # <<>>
        /\ acp.cp_class = "IcpClassifier") =>
        \A m, k \in DOMAIN acp.predictors :
            Get(acp.predictors[m].classes) = Get(acp.predictors[k].classes)

\* the single member's own predict, on the same query, significance and
\* uniform draws as the pending call on the ensemble
MemberPrediction ==
    predict(acp.predictors[1], aret.x, aret.significance, aret.u[1])

OneMemberPredicted ==
    /\ aret.op = "predict"
    /\ Len(acp.predictors) = 1
    /\ acp.p_agg_func = "identity"
    /\ acp.cp_class = "IcpClassifier"

\* C6 as stated: with one member and the identity aggregation function the
\* ensemble's prediction equals the member's, in shape and in every entry.
C6_OneMemberIdentityEqual ==
    OneMemberPredicted =>
        /\ aret.res.exc = MemberPrediction.exc
        /\ aret.res.shape = MemberPrediction.shape
        /\ aret.res.data = MemberPrediction.data

EqRat(p, q) == p[1] * q[2] = q[1] * p[2]

\* C6 as amended: the ensemble's prediction is the member's with one more,
\* trailing axis of length 1, entry for entry, except where a p-value equals
\* a non-zero significance: there the ensemble includes the label (>=) and
\* the member excludes it (>).
C6_OneMemberIdentityAmended ==
    OneMemberPredicted =>
        LET mem == MemberPrediction
            p == IcpPValues(acp.predictors[1], aret.x, aret.u[1])
        IN /\ aret.res.exc = "none" /\ mem.exc = "none"
           /\ aret.res.dtype = mem.dtype
           /\ aret.res.shape = mem.shape \o <<1>>
           /\ DOMAIN aret.res.data = DOMAIN mem.data
           /\ \A j \in DOMAIN mem.data :
                /\ DOMAIN aret.res.data[j] = DOMAIN mem.data[j]
                /\ \A i \in DOMAIN mem.data[j] :
                     /\ Len(aret.res.data[j][i]) = 1
                     /\ IF Truthy(aret.significance)
                           /\ EqRat(p.data[j][i], Get(aret.significance))
                        THEN /\ aret.res.data[j][i][1] = Bool(TRUE)
                             /\ mem.data[j][i] = Bool(FALSE)
                        ELSE aret.res.data[j][i][1] = mem.data[j][i]

\* C6 witness: one member, identity aggregation, a significance given and a
\* p-value exactly on it
C6_Witness ==
    /\ OneMemberPredicted
    /\ Truthy(aret.significance)
    /\ aret.res.exc = "none"
    /\ \E j \in DOMAIN aret.res.data : \E i \in DOMAIN aret.res.data[j] :
          EqRat(IcpPValues(acp.predictors[1], aret.x, aret.u[1]).data[j][i],
                Get(aret.significance))

====
